---- MODULE Spec2Model ----
(***************************************************************************)
(* Model of MacroNoMore (src/MacroNoMore.cpp): a clang tool that records   *)
(* every variable/function declaration, reference, integer literal and     *)
(* string literal of a translation unit under a string key, gives each key *)
(* a random 8-character alias, replaces the recorded locations by the      *)
(* alias and writes "#define <alias> <key>" lines followed by the          *)
(* rewritten main file.                                                    *)
(*                                                                         *)
(* Text is modelled as a sequence of one-character strings.  A source file *)
(* is the concatenation of its tokens, each followed by one blank.         *)
(***************************************************************************)
EXTENDS Integers, Sequences, FiniteSets, TLC

VARIABLES pc, code, idx, aliases, nameLocations, editBuffer, output,
          exitCode, hadError, randCalls

vars == <<pc, code, idx, aliases, nameLocations, editBuffer, output,
          exitCode, hadError, randCalls>>

(* ------------------------------ bounds --------------------------------- *)

\* longest input, in token occurrences
MaxTokens == 3

\* bit width of int / unsigned int in the modelled target (scaled down)
IntWidth == 4

(* ------------------------- program constants --------------------------- *)

\* int len = 8;
AliasLen == 8

\* name.substr(8)
OperatorPrefixLen == 8

letters ==
  << "A","B","C","D","E","F","G","H","I","J","K","L","M",
     "N","O","P","Q","R","S","T","U","V","W","X","Y","Z",
     "a","b","c","d","e","f","g","h","i","j","k","l","m",
     "n","o","p","q","r","s","t","u","v","w","x","y","z" >>

alphanum ==
  << "0","1","2","3","4","5","6","7","8","9" >> \o letters

predefinedIdentifiers ==
  { <<"c","o","u","t">>, <<"c","i","n">>,
    <<"c","e","r","r">>, <<"c","l","o","g">> }

OperatorPrefix == <<"o","p","e","r","a","t","o","r">>

(* ------------------------------ text ----------------------------------- *)

Pow2(n) == 2 ^ n

LongWidth == 2 * IntWidth

Range(s) == { s[i] : i \in 1..Len(s) }

DecDigits == << "0","1","2","3","4","5","6","7","8","9" >>

HexDigits == DecDigits \o << "A","B","C","D","E","F" >>

DigitValue(c) == (CHOOSE i \in 1..Len(HexDigits) : HexDigits[i] = c) - 1

RECURSIVE DecStr(_)
DecStr(n) ==
  IF n < 10 THEN << DecDigits[n + 1] >>
  ELSE DecStr(n \div 10) \o << DecDigits[(n % 10) + 1] >>

RECURSIVE DigitsValue(_, _)
DigitsValue(ds, radix) ==
  IF ds = << >> THEN 0
  ELSE DigitsValue(SubSeq(ds, 1, Len(ds) - 1), radix) * radix
       + DigitValue(ds[Len(ds)])

IsHexSpelling(sp) == Len(sp) > 2 /\ sp[1] = "0" /\ sp[2] = "x"

LiteralRadix(sp) == IF IsHexSpelling(sp) THEN 16 ELSE 10

\* the value the lexer reads from the spelling of an integer literal
LiteralValue(sp) ==
  IF IsHexSpelling(sp)
  THEN DigitsValue(SubSeq(sp, 3, Len(sp)), 16)
  ELSE DigitsValue(sp, 10)

\* width of the type of an unsuffixed literal: int, unsigned int (not for
\* decimal spellings), long, unsigned long
LiteralWidth(sp) ==
  LET v == LiteralValue(sp)
  IN  IF v < Pow2(IntWidth - 1) THEN IntWidth
      ELSE IF LiteralRadix(sp) # 10 /\ v < Pow2(IntWidth) THEN IntWidth
      ELSE LongWidth

\* APInt::toString(Str, Radix = 10, Signed, formatAsCLiteral = false)
APIntToString(v, width, signed) ==
  IF signed /\ v >= Pow2(width - 1)
  THEN << "-" >> \o DecStr(Pow2(width) - v)
  ELSE DecStr(v)

\* StringLiteral::getString(): the characters between the quotes, escape
\* sequences replaced by the characters they denote
RECURSIVE Unescape(_)
Unescape(body) ==
  IF body = << >> THEN << >>
  ELSE IF body[1] = "\\" /\ Len(body) >= 2
       THEN << (IF body[2] = "n" THEN "\n" ELSE body[2]) >>
            \o Unescape(SubSeq(body, 3, Len(body)))
       ELSE << body[1] >> \o Unescape(Tail(body))

getString(sp) == Unescape(SubSeq(sp, 2, Len(sp) - 1))

(* ----------------------------- the input ------------------------------- *)

Files == {"main", "header"}

Tok(kind, name, spelling, inMain) ==
  [kind |-> kind, name |-> name, spelling |-> spelling, inMain |-> inMain]

n_x == << "x" >>
n_cout == << "c","o","u","t" >>
n_plus == OperatorPrefix \o << "+" >>

\* the token occurrences the parser can deliver (name: the declared or
\* referenced name; spelling: the source text at the occurrence's location)
TokenUniverse ==
  { Tok("VarDecl", n_x, n_x, TRUE),
    Tok("VarDecl", n_cout, n_cout, FALSE),
    Tok("FunctionDecl", n_plus, n_plus, TRUE),
    Tok("DeclRefExpr", n_x, n_x, TRUE),
    Tok("DeclRefExpr", n_x, n_x, FALSE),
    Tok("DeclRefExpr", n_cout, n_cout, FALSE),
    Tok("DeclRefExpr", n_plus, << "+" >>, TRUE),
    Tok("IntegerLiteral", << >>, << "0","x","F" >>, TRUE),
    Tok("StringLiteral", << >>, << "\"","\\","n","\"" >>, TRUE),
    Tok("SyntaxError", << >>, << "@" >>, TRUE) }

Inputs == UNION { [1..n -> TokenUniverse] : n \in 0..MaxTokens }

FileOf(t) == IF t.inMain THEN "main" ELSE "header"

\* the text of a file: its tokens, each followed by a blank
RECURSIVE BufferOf(_, _)
BufferOf(toks, file) ==
  IF toks = << >> THEN << >>
  ELSE (IF FileOf(toks[1]) = file THEN toks[1].spelling \o << " " >>
        ELSE << >>)
       \o BufferOf(Tail(toks), file)

\* SourceLocation of the i-th occurrence: file and offset in that file
LocOf(toks, i) ==
  [file |-> FileOf(toks[i]),
   off  |-> Len(BufferOf(SubSeq(toks, 1, i - 1), FileOf(toks[i])))]

isInMainFile(loc) == loc.file = "main"

(* --------------------------- alias generator --------------------------- *)

\* the values of the AliasLen calls of rand() made for one alias, `calls`
\* calls having been made before: a generator whose c-th call returns c - 1,
\* and one that returns its first AliasLen values over again
RandRuns(calls) ==
  { [i \in 1..AliasLen |-> start + i - 1] : start \in {0, calls} }

generateRandomAlias(draws) ==
  << letters[(draws[1] % Len(letters)) + 1] >>
  \o [i \in 1..(AliasLen - 1) |-> alphanum[(draws[i + 1] % Len(alphanum)) + 1]]

(* ------------------------------ visitor -------------------------------- *)

\* the comparison with end() inverted
isPredefinedIdentifier_inverted(name) == name \notin predefinedIdentifiers

isPredefinedIdentifier(name) == name \in predefinedIdentifiers

\* the prefix test never succeeding
isOperator_never(name) == FALSE

isOperator(name) ==
  /\ Len(name) >= Len(OperatorPrefix)
  /\ SubSeq(name, 1, Len(OperatorPrefix)) = OperatorPrefix

\* the lookup left out: an alias is generated at every occurrence
NeedsAlias_always(al, key) == TRUE

\* aliases.find(key) == aliases.end()
NeedsAlias(al, key) == key \notin DOMAIN al

\* the common tail of every Visit*: first-seen alias, then push_back
Record(key, loc) ==
  /\ IF NeedsAlias(aliases, key)
     THEN \E draws \in RandRuns(randCalls) :
            /\ aliases' = [k \in DOMAIN aliases \cup {key} |->
                             IF k = key THEN generateRandomAlias(draws)
                             ELSE aliases[k]]
            /\ randCalls' = randCalls + AliasLen
     ELSE UNCHANGED <<aliases, randCalls>>
  /\ nameLocations' =
       [k \in DOMAIN nameLocations \cup {key} |->
          IF k = key
          THEN (IF key \in DOMAIN nameLocations
                THEN Append(nameLocations[key], loc) ELSE << loc >>)
          ELSE nameLocations[k]]

Skip == UNCHANGED <<aliases, nameLocations, randCalls>>

\* the indices of the occurrences the parser turned into AST nodes, in
\* traversal order (text it could not parse yields a diagnostic, no node)
RECURSIVE AstFrom(_, _)
AstFrom(toks, i) ==
  IF i > Len(toks) THEN << >>
  ELSE (IF toks[i].kind = "SyntaxError" THEN << >> ELSE << i >>)
       \o AstFrom(toks, i + 1)

Ast(toks) == AstFrom(toks, 1)

Node == code[Ast(code)[idx]]

NodeLoc == LocOf(code, Ast(code)[idx])

Visiting(kind) ==
  /\ pc = "TraverseDecl"
  /\ idx <= Len(Ast(code))
  /\ Node.kind = kind
  /\ idx' = idx + 1
  /\ UNCHANGED <<pc, code, editBuffer, output, exitCode, hadError>>

DeclKey(t) == t.name

RefKey(t) ==
  IF isOperator(t.name)
  THEN SubSeq(t.name, OperatorPrefixLen + 1, Len(t.name))
  ELSE t.name

IntegerKey(t) ==
  APIntToString(LiteralValue(t.spelling), LiteralWidth(t.spelling), TRUE)

StringKey(t) == << "\"" >> \o getString(t.spelling) \o << "\"" >>

VisitVarDecl ==
  /\ Visiting("VarDecl")
  /\ IF isInMainFile(NodeLoc)
     THEN Record(DeclKey(Node), NodeLoc)
     ELSE Skip

VisitDeclRefExpr ==
  /\ Visiting("DeclRefExpr")
  /\ IF isInMainFile(NodeLoc) \/ isPredefinedIdentifier(Node.name)
     THEN Record(RefKey(Node), NodeLoc)
     ELSE Skip

VisitIntegerLiteral ==
  /\ Visiting("IntegerLiteral")
  /\ IF isInMainFile(NodeLoc)
     THEN Record(IntegerKey(Node), NodeLoc)
     ELSE Skip

VisitStringLiteral ==
  /\ Visiting("StringLiteral")
  /\ IF isInMainFile(NodeLoc)
     THEN Record(StringKey(Node), NodeLoc)
     ELSE Skip

VisitFunctionDecl ==
  /\ Visiting("FunctionDecl")
  /\ IF isInMainFile(NodeLoc)
     THEN Record(DeclKey(Node), NodeLoc)
     ELSE Skip

(* ------------------------------ rewriter ------------------------------- *)

\* RewriteBuffer::getMappedOffset(OrigOffset, AfterInserts = true)
RECURSIVE DeltaAt(_, _)
DeltaAt(deltas, off) ==
  IF deltas = << >> THEN 0
  ELSE (IF deltas[1].off <= off THEN deltas[1].change ELSE 0)
       + DeltaAt(Tail(deltas), off)

\* RewriteBuffer::ReplaceText(OrigOffset, OrigLength, NewStr)
ReplaceText(rb, off, len, new) ==
  LET real == off + DeltaAt(rb.deltas, off)
  IN  [buf    |-> SubSeq(rb.buf, 1, real) \o new
                  \o SubSeq(rb.buf, real + len + 1, Len(rb.buf)),
       deltas |-> IF len # Len(new)
                  THEN Append(rb.deltas, [off |-> off, change |-> Len(new) - len])
                  ELSE rb.deltas]

\* Rewriter::ReplaceText(loc, OrigLength, NewStr)
RewriterReplaceText(eb, loc, len, new) ==
  [eb EXCEPT ![loc.file] = ReplaceText(eb[loc.file], loc.off, len, new)]

\* the inner loop of ReplaceReferences for one entry of aliases
RECURSIVE ReplaceLocations(_, _, _, _)
ReplaceLocations(eb, locs, key, alias) ==
  IF locs = << >> THEN eb
  ELSE ReplaceLocations(RewriterReplaceText(eb, locs[1], Len(key), alias),
                        Tail(locs), key, alias)

\* the outer loop of ReplaceReferences, entries taken in iteration order
RECURSIVE ReplaceEntries(_, _, _, _)
ReplaceEntries(eb, order, al, nl) ==
  IF order = << >> THEN eb
  ELSE ReplaceEntries(ReplaceLocations(eb, nl[order[1]], order[1], al[order[1]]),
                      Tail(order), al, nl)

\* the orders in which an unordered_map with key set S can be iterated
IterationOrders(S) ==
  { f \in [1..Cardinality(S) -> S] :
      \A i, j \in 1..Cardinality(S) : f[i] = f[j] => i = j }

(* ------------------------------- output -------------------------------- *)

DefineKeyword == << "#","d","e","f","i","n","e"," " >>

\* outputFile << "#define " << entry.second << " " << entry.first << "\n"
DefineLine(alias, key) ==
  [kind |-> "define",
   text |-> DefineKeyword \o alias \o << " " >> \o key \o << "\n" >>]

\* the loop stopping one entry early
DefineLines_short(order, al) ==
  [i \in 1..(Len(order) - 1) |-> DefineLine(al[order[i]], order[i])]

\* the loop of InsertAliases, entries taken in iteration order
RECURSIVE DefineLines(_, _)
DefineLines(order, al) ==
  IF order = << >> THEN << >>
  ELSE << DefineLine(al[order[1]], order[1]) >> \o DefineLines(Tail(order), al)

\* the buffer written ahead of what the file already holds
WriteEditBuffer_first(out, text) ==
  << [kind |-> "source", text |-> text] >> \o out

\* getEditBuffer(MainFileID).write(OutputFile)
WriteEditBuffer(out, text) == Append(out, [kind |-> "source", text |-> text])

(* ------------------------------- driver -------------------------------- *)

NoBuffers == [f \in Files |-> [buf |-> << >>, deltas |-> << >>]]

Init ==
  /\ pc = "main"
  /\ code = << >>
  /\ idx = 1
  /\ aliases = << >>
  /\ nameLocations = << >>
  /\ editBuffer = NoBuffers
  /\ output = << >>
  /\ exitCode = -1
  /\ hadError = FALSE
  /\ randCalls = 0

Exit(status) ==
  /\ exitCode' = status
  /\ pc' = "done"
  /\ UNCHANGED <<code, idx, aliases, nameLocations, editBuffer, output,
                 hadError, randCalls>>

\* if (argc != 3) return 1;
UsageError ==
  /\ pc = "main"
  /\ Exit(1)

\* if (!sourceFile.is_open()) return 1;
SourceOpenError ==
  /\ pc = "main"
  /\ Exit(1)

\* if (EC) return 1;
OutputOpenError ==
  /\ pc = "main"
  /\ Exit(1)

\* the source file is read and parsed; the rewriter is bound to its buffers
RunToolOnCode ==
  /\ pc = "main"
  /\ \E input \in Inputs :
       /\ code' = input
       /\ hadError' = (\E i \in 1..Len(input) : input[i].kind = "SyntaxError")
       /\ editBuffer' = [f \in Files |->
                           [buf |-> BufferOf(input, f), deltas |-> << >>]]
  /\ pc' = "TraverseDecl"
  /\ UNCHANGED <<idx, aliases, nameLocations, output, exitCode, randCalls>>

\* the visitor's ReplaceReferences: every recorded location replaced
ReplaceReferences(eb, order) ==
  ReplaceEntries(eb, order, aliases, nameLocations)

\* the visitor's InsertAliases: the #define lines appended to the output
InsertAliases(out, order) == out \o DefineLines(order, aliases)

\* what HandleTranslationUnit does once TraverseDecl has returned; both
\* loops iterate the same unmodified map, so in the same order
HandleTranslationUnit ==
  /\ pc = "TraverseDecl"
  /\ idx > Len(Ast(code))
  /\ \E order \in IterationOrders(DOMAIN aliases) :
       /\ editBuffer' = ReplaceReferences(editBuffer, order)
       /\ output' = InsertAliases(output, order)
  /\ pc' = "EndSourceFileAction"
  /\ UNCHANGED <<code, idx, aliases, nameLocations, exitCode, hadError,
                 randCalls>>

EndSourceFileAction ==
  /\ pc = "EndSourceFileAction"
  /\ output' = WriteEditBuffer(output, editBuffer["main"].buf)
  /\ pc' = "return"
  /\ UNCHANGED <<code, idx, aliases, nameLocations, editBuffer, exitCode,
                 hadError, randCalls>>

\* the result of runToolOnCode is dropped; return 0;
MainReturn ==
  /\ pc = "return"
  /\ Exit(0)

Next ==
  \/ UsageError
  \/ SourceOpenError
  \/ OutputOpenError
  \/ RunToolOnCode
  \/ VisitVarDecl
  \/ VisitDeclRefExpr
  \/ VisitIntegerLiteral
  \/ VisitStringLiteral
  \/ VisitFunctionDecl
  \/ HandleTranslationUnit
  \/ EndSourceFileAction
  \/ MainReturn

Spec == Init /\ [][Next]_vars

(* ======================= properties of the program ===================== *)

\* HandleTranslationUnit has returned
Handled ==
  \/ pc \in {"EndSourceFileAction", "return"}
  \/ pc = "done" /\ exitCode = 0

Finished == pc = "done" /\ exitCode = 0

\* the AST nodes already visited, as indices into code
VisitedNodes == LET a == Ast(code) IN { a[n] : n \in 1..(idx - 1) }

FiledUnder(k, loc) ==
  k \in DOMAIN nameLocations /\ loc \in Range(nameLocations[k])

IsRecorded(loc) == \E k \in DOMAIN nameLocations : FiledUnder(k, loc)

FiledKey(loc) == CHOOSE k \in DOMAIN nameLocations : FiledUnder(k, loc)

DefineChunks == SelectSeq(output, LAMBDA c : c.kind = "define")

SourceChunks == SelectSeq(output, LAMBDA c : c.kind = "source")

\* the alias and the right-hand side read back from an emitted line
AliasOfLine(c) ==
  SubSeq(c.text, Len(DefineKeyword) + 1, Len(DefineKeyword) + AliasLen)

KeyOfLine(c) ==
  SubSeq(c.text, Len(DefineKeyword) + AliasLen + 2, Len(c.text) - 1)

StartsWith(text, prefix) ==
  Len(text) >= Len(prefix) /\ SubSeq(text, 1, Len(prefix)) = prefix

\* macro expansion of a text: every occurrence of an alias is replaced by
\* the right-hand side of its #define line
RECURSIVE Expand(_, _)
Expand(text, defs) ==
  IF text = << >> THEN << >>
  ELSE IF \E i \in 1..Len(defs) : StartsWith(text, AliasOfLine(defs[i]))
       THEN LET i == CHOOSE i \in 1..Len(defs) :
                       StartsWith(text, AliasOfLine(defs[i]))
            IN  KeyOfLine(defs[i])
                \o Expand(SubSeq(text, AliasLen + 1, Len(text)), defs)
       ELSE << text[1] >> \o Expand(Tail(text), defs)

\* C1: expanding every alias of the rewritten source by the right-hand side
\* of its #define line gives back the original main-file buffer.
C1_RoundTrip ==
  Finished =>
    Expand(SourceChunks[1].text, DefineChunks) = BufferOf(code, "main")

\* the main file with every recorded token replaced by its key's alias and
\* everything else kept
RECURSIVE ExpectedRewrite(_, _)
ExpectedRewrite(toks, i) ==
  IF i > Len(toks) THEN << >>
  ELSE (IF ~toks[i].inMain THEN << >>
        ELSE (IF IsRecorded(LocOf(toks, i))
              THEN aliases[FiledKey(LocOf(toks, i))]
              ELSE toks[i].spelling) \o << " " >>)
       \o ExpectedRewrite(toks, i + 1)

\* C2: after ReplaceReferences every recorded token of the main file is
\* replaced by exactly its key's alias and every other byte is unchanged.
C2_ExactSpans ==
  Handled => editBuffer["main"].buf = ExpectedRewrite(code, 1)

\* C3: InsertAliases writes exactly one "#define <alias> <key>" line per
\* recorded key, no key twice and no line for a key never recorded.
C3_OneDefinePerKey ==
  Handled =>
    LET defs == DefineChunks
        keys == { KeyOfLine(defs[i]) : i \in 1..Len(defs) }
    IN  /\ Len(defs) = Cardinality(DOMAIN nameLocations)
        /\ keys = DOMAIN nameLocations
        /\ Cardinality(keys) = Len(defs)
        /\ \A i \in 1..Len(defs) :
             LET k == KeyOfLine(defs[i])
             IN  defs[i].text
                   = DefineKeyword \o aliases[k] \o << " " >> \o k \o << "\n" >>

C3_Witness ==
  /\ Finished
  /\ Len(DefineChunks) = 2
  /\ \E k \in DOMAIN nameLocations : Len(nameLocations[k]) = 2

\* C4: no two emitted #define lines carry the same alias.
C4_UniqueAliases ==
  \A i, j \in 1..Len(DefineChunks) :
    i # j => AliasOfLine(DefineChunks[i]) # AliasOfLine(DefineChunks[j])

\* C5: nothing is written before the traversal is over, the #define lines
\* are written first (by HandleTranslationUnit) and the rewritten main file
\* is written once, after them (by EndSourceFileAction).
C5_DefinesThenSource ==
  /\ pc \in {"main", "TraverseDecl"} => output = << >>
  /\ pc = "EndSourceFileAction" =>
       /\ Len(output) = Cardinality(DOMAIN aliases)
       /\ \A i \in 1..Len(output) : output[i].kind = "define"
  /\ (pc = "return" \/ Finished) =>
       /\ Len(output) = Cardinality(DOMAIN aliases) + 1
       /\ \A i \in 1..(Len(output) - 1) : output[i].kind = "define"
       /\ output[Len(output)] =
            [kind |-> "source", text |-> editBuffer["main"].buf]

C5_Witness ==
  /\ Finished
  /\ Len(output) = 3
  /\ output[1].kind = "define"
  /\ output[3].kind = "source"

\* the visit in progress records the visited occurrence
RecordsNode ==
  \E k \in DOMAIN nameLocations' :
    /\ nameLocations'[k] =
         (IF k \in DOMAIN nameLocations THEN nameLocations[k] ELSE << >>)
         \o << NodeLoc >>
    /\ k \in DOMAIN aliases'

IsVisit == pc = "TraverseDecl" /\ idx' = idx + 1

\* C6 as claimed: an occurrence is recorded if and only if it lies in the
\* main file or its name is one of cout, cin, cerr, clog; otherwise both
\* tables are left unchanged.
C6_EligibilityAsClaimed ==
  [][IsVisit =>
       IF Node.inMain \/ Node.name \in predefinedIdentifiers
       THEN RecordsNode
       ELSE aliases' = aliases /\ nameLocations' = nameLocations]_vars

\* C6 amended: an occurrence is recorded if and only if it lies in the main
\* file or it is a reference (DeclRefExpr) whose name is one of cout, cin,
\* cerr, clog; otherwise both tables are left unchanged.
C6_Eligibility ==
  [][IsVisit =>
       IF \/ Node.inMain
          \/ Node.kind = "DeclRefExpr" /\ Node.name \in predefinedIdentifiers
       THEN RecordsNode
       ELSE aliases' = aliases /\ nameLocations' = nameLocations]_vars

\* a reference to cout outside the main file was recorded, a declaration of
\* cout and a reference to x outside the main file were not
C6_Witness ==
  /\ pc = "TraverseDecl"
  /\ \E i, j, l \in VisitedNodes :
       /\ code[i].kind = "DeclRefExpr" /\ ~code[i].inMain
       /\ code[i].name \in predefinedIdentifiers
       /\ IsRecorded(LocOf(code, i))
       /\ code[j].kind = "VarDecl" /\ ~code[j].inMain
       /\ code[j].name \in predefinedIdentifiers
       /\ ~IsRecorded(LocOf(code, j))
       /\ code[l].kind = "DeclRefExpr" /\ ~code[l].inMain
       /\ code[l].name \notin predefinedIdentifiers
       /\ ~IsRecorded(LocOf(code, l))

\* C7: after a parse failure the run does not end with exit code 0, no
\* replacement is applied and nothing is written to the output.
C7_ParseFailureIsFatal ==
  (pc = "done" /\ hadError) =>
    /\ exitCode # 0
    /\ output = << >>
    /\ editBuffer["main"].buf = BufferOf(code, "main")

\* C8: every integer literal is filed under the decimal text of its
\* unsigned value.
C8_UnsignedDecimalKey ==
  \A i \in VisitedNodes :
    (code[i].kind = "IntegerLiteral" /\ code[i].inMain) =>
      FiledUnder(DecStr(LiteralValue(code[i].spelling)), LocOf(code, i))

IsDecl(t) == t.kind \in {"VarDecl", "FunctionDecl"}

HasOperatorPrefix(name) == StartsWith(name, << "o","p","e","r","a","t","o","r" >>)

\* C9 as claimed: a recorded declaration and a recorded reference of the
\* same name are filed under the same key.
C9_SameKeyAsClaimed ==
  \A i, j \in VisitedNodes :
    ( /\ IsDecl(code[i]) /\ code[j].kind = "DeclRefExpr"
      /\ code[i].name = code[j].name
      /\ IsRecorded(LocOf(code, i)) /\ IsRecorded(LocOf(code, j)) )
    => FiledKey(LocOf(code, i)) = FiledKey(LocOf(code, j))

\* C9 amended: a recorded declaration is filed under its name; a recorded
\* reference is filed under its name, unless the name begins with
\* "operator", and then under the text that follows these 8 characters.
\* So a declaration and a reference of the same name share a key exactly
\* when the name does not begin with "operator".
C9_SameKey ==
  \A i, j \in VisitedNodes :
    ( /\ IsDecl(code[i]) /\ code[j].kind = "DeclRefExpr"
      /\ code[i].name = code[j].name
      /\ IsRecorded(LocOf(code, i)) /\ IsRecorded(LocOf(code, j)) )
    => /\ FiledKey(LocOf(code, i)) = code[i].name
       /\ IF HasOperatorPrefix(code[j].name)
          THEN /\ FiledKey(LocOf(code, j))
                    = SubSeq(code[j].name, 9, Len(code[j].name))
               /\ FiledKey(LocOf(code, j)) # FiledKey(LocOf(code, i))
          ELSE FiledKey(LocOf(code, j)) = FiledKey(LocOf(code, i))

\* a declaration and a reference of operator+ and a reference of x, all
\* recorded
C9_Witness ==
  \E i, j, l \in VisitedNodes :
    /\ code[i].kind = "FunctionDecl" /\ code[j].kind = "DeclRefExpr"
    /\ code[i].name = code[j].name
    /\ HasOperatorPrefix(code[i].name)
    /\ IsRecorded(LocOf(code, i)) /\ IsRecorded(LocOf(code, j))
    /\ code[l].kind = "DeclRefExpr" /\ ~HasOperatorPrefix(code[l].name)
    /\ IsRecorded(LocOf(code, l))

TablesAgree ==
  /\ DOMAIN aliases = DOMAIN nameLocations
  /\ \A k \in DOMAIN nameLocations : Len(nameLocations[k]) >= 1
  /\ randCalls = AliasLen * Cardinality(DOMAIN aliases)

FirstSeenStep ==
  /\ \A k \in DOMAIN aliases : k \in DOMAIN aliases' /\ aliases'[k] = aliases[k]
  /\ \A k \in DOMAIN nameLocations :
       /\ k \in DOMAIN nameLocations'
       /\ \/ nameLocations'[k] = nameLocations[k]
          \/ /\ Len(nameLocations'[k]) = Len(nameLocations[k]) + 1
             /\ SubSeq(nameLocations'[k], 1, Len(nameLocations[k]))
                  = nameLocations[k]
             /\ randCalls' = randCalls
             /\ DOMAIN aliases' = DOMAIN aliases
             /\ \A o \in DOMAIN nameLocations \ {k} :
                  nameLocations'[o] = nameLocations[o]
  /\ \A k \in DOMAIN nameLocations' \ DOMAIN nameLocations :
       /\ Len(nameLocations'[k]) = 1
       /\ DOMAIN nameLocations' = DOMAIN nameLocations \cup {k}
       /\ randCalls' = randCalls + AliasLen
       /\ \A o \in DOMAIN nameLocations : nameLocations'[o] = nameLocations[o]
  /\ randCalls' # randCalls => DOMAIN aliases' # DOMAIN aliases

\* C10: a key's alias is generated once, at its first occurrence, and never
\* changes; a later occurrence of the key appends one location to its list
\* without calling the generator and leaves every other key alone; the two
\* tables have the same keys and every key has a location.
C10_FirstSeenWins == [](TablesAgree) /\ [][FirstSeenStep]_vars

C10_Witness ==
  /\ Cardinality(DOMAIN aliases) = 2
  /\ \E k \in DOMAIN nameLocations : Len(nameLocations[k]) = 2

====
